---- MODULE Spec2Model ----
(***************************************************************************)
(* HarmonicOscillatorEnergyAnalysis (src/Tutoring/solution.py): a narrated *)
(* manim show of five scenes and sixteen voiceover segments.               *)
(*                                                                         *)
(* Time is counted in hundredths of a second (3.0 s = 300).  Positions of  *)
(* overlay texts are counted in tenths of a manim unit (UP * 3 = 30).      *)
(* Python floats are modelled as exact numbers.                            *)
(***************************************************************************)
EXTENDS Integers, Sequences, FiniteSets

\* ------------------------------------------------------------------ bounds
\* tracker.duration of a voiceover is one of 2.5 s, 5.0 s, ..., MaxNarration * 2.5 s
MaxNarration == 3

Durations == {250 * k : k \in 1..MaxNarration}

\* ------------------------------------------------------- program constants
TEXT_FLOW_SHIFT_X == 0
TEXT_FLOW_SHIFT_Y == 30
text_center_x == 30
text_center_y == 5
MAX_STACK == 6
FLOW_RUN_TIME == 50
FADE_IN_RUN_TIME == 80
HIGHLIGHT_RUN_TIME == 60

Min(a, b) == IF a < b THEN a ELSE b
Max(a, b) == IF a > b THEN a ELSE b

\* --------------------------------------------- the dependent nodes (physics)
\* Real numbers are kept in fixed point: Scale stands for 1.0.  The clock only
\* takes multiples of 0.05 s, so an oscillation of period 4.0 s is sampled at
\* PhaseSteps phases of 4.5 degrees each.
Scale == 1000
PhaseSteps == 80
TWO_PI == 6283
period == 400
wall_x == -4500
equilibrium_x == -2500
amplitude_visual == 1000

Abs(x) == IF x < 0 THEN 0 - x ELSE x
Sign(x) == IF x < 0 THEN 0 - 1 ELSE IF x > 0 THEN 1 ELSE 0

\* np.cos on the first quarter wave, 1000 * cos(k * 4.5 degrees), k = 0..20
CosTable ==
    << 1000, 997, 988, 972, 951, 924, 891, 853, 809, 760, 707,
       649, 588, 522, 454, 383, 309, 233, 156, 78, 0 >>

\* the phase step of 2 * pi * current_time / period
Phase(t) == ((t % period) * PhaseSteps) \div period

\* np.cos and np.sin of a phase step
Cos(k) ==
    LET q == k % PhaseSteps
        h == PhaseSteps \div 2
        f == PhaseSteps \div 4
    IN  IF q <= f THEN CosTable[q + 1]
        ELSE IF q <= h THEN 0 - CosTable[h - q + 1]
        ELSE IF q <= h + f THEN 0 - CosTable[q - h + 1]
        ELSE CosTable[PhaseSteps - q + 1]
Sin(k) == Cos(k + 3 * (PhaseSteps \div 4))

\* a displacement of twice the amplitude
position_offset_Doubled(t) == (2 * amplitude_visual * Cos(Phase(t))) \div Scale

\* position_offset = amplitude_visual * cos(2 pi t / period)
position_offset(t) == (amplitude_visual * Cos(Phase(t))) \div Scale

\* a mass drawn at the displacement it is handed, the clamp left out
ConstrainMass_NoClamp(offset) ==
    [x |-> equilibrium_x + offset, clamped |-> FALSE, raised |-> "none"]

\* the rest of draw_constrained_mass for a displacement: the clamp branch
\* replaces a displacement beyond the amplitude by sign * amplitude, and the
\* mass is drawn at equilibrium_x + displacement; nothing is raised
ConstrainMass(offset) ==
    IF Abs(offset) > amplitude_visual
    THEN [x |-> equilibrium_x + Sign(offset) * amplitude_visual,
          clamped |-> TRUE, raised |-> "none"]
    ELSE [x |-> equilibrium_x + offset, clamped |-> FALSE, raised |-> "none"]

draw_constrained_mass(t) == ConstrainMass(position_offset(t))

\* draw_constrained_spring: from the wall attachment to the mass attachment
wall_attachment == wall_x + 150

\* a spring attached to the centre of the mass
mass_attachment_Centre(t) == equilibrium_x + position_offset(t)

mass_attachment(t) == equilibrium_x + position_offset(t) - 200
draw_constrained_spring(t) == [from |-> wall_attachment, to |-> mass_attachment(t)]

\* 2 * pi / period, in rad/s
omega_visual == (TWO_PI * 100) \div period

\* a kinetic energy fraction that forgets the angular frequency in ke_max
get_kinetic_energy_fraction_NoOmega(t) ==
    LET velocity == 0 - ((((amplitude_visual * omega_visual) \div Scale)
                           * Sin(Phase(t))) \div Scale)
        ke_current == (velocity * velocity) \div 2
        ke_max == (amplitude_visual * amplitude_visual) \div 2
    IN  IF ke_max > 0 THEN (ke_current * Scale) \div ke_max ELSE 0

\* get_kinetic_energy_fraction: 0.5 v^2 / (0.5 (A * 2 pi / period)^2)
get_kinetic_energy_fraction(t) ==
    LET velocity == 0 - ((((amplitude_visual * omega_visual) \div Scale)
                           * Sin(Phase(t))) \div Scale)
        ke_current == (velocity * velocity) \div 2
        vmax == (amplitude_visual * omega_visual) \div Scale
        ke_max == (vmax * vmax) \div 2
    IN  IF ke_max > 0 THEN (ke_current * Scale) \div ke_max ELSE 0

\* get_potential_energy_fraction: 0.5 x^2 / (0.5 A^2)
get_potential_energy_fraction(t) ==
    LET pe_current == (position_offset(t) * position_offset(t)) \div 2
        pe_max == (amplitude_visual * amplitude_visual) \div 2
    IN  IF pe_max > 0 THEN (pe_current * Scale) \div pe_max ELSE 0

\* --------------------------------------------------------- the show program
\* One record per statement of a voiceover block.
\*   op   "make"  a create_* call that advances no time
\*        "play"  self.play(...) : run_time = rt, or min(cap, num/10 * duration)
\*        "wait"  self.wait(rt)
\*        "highlight"  highlight_amplitude_concept()
\*        "post"  add_flowing_text(create_superscript_text(...))
\*   objs  the objects the statement creates (make) or puts on the scene (play)
\*   refs  the attributes (self.wall, ...) the statement reads
\*   dx    the shift along x the play applies to the objects of refs
Make(objs) ==
    [op |-> "make", rt |-> 0, cap |-> 0, num |-> 0, objs |-> objs, refs |-> {}, dx |-> 0]
Play(rt, objs) ==
    [op |-> "play", rt |-> rt, cap |-> 0, num |-> 0, objs |-> objs, refs |-> objs, dx |-> 0]
PlayScaled(cap, num, objs) ==
    [op |-> "play", rt |-> 0, cap |-> cap, num |-> num, objs |-> objs, refs |-> objs, dx |-> 0]
GroupShift(cap, num, group, dx) ==
    [op |-> "play", rt |-> 0, cap |-> cap, num |-> num, objs |-> {}, refs |-> group, dx |-> dx]
Wait(rt) ==
    [op |-> "wait", rt |-> rt, cap |-> 0, num |-> 0, objs |-> {}, refs |-> {}, dx |-> 0]
Highlight ==
    [op |-> "highlight", rt |-> 0, cap |-> 0, num |-> 0, objs |-> {},
     refs |-> {"amplitude_markers"}, dx |-> 0]
Post ==
    [op |-> "post", rt |-> 0, cap |-> 0, num |-> 0, objs |-> {}, refs |-> {}, dx |-> 0]

\* a voiceover block: its statements and the constant subtracted from
\* tracker.duration in "remaining_time = max(0, tracker.duration - sub)"
Segment(acts, sub) == [acts |-> acts, sub |-> sub]

SystemObjects == {"wall", "spring", "mass", "equilibrium_line"}

EnergyBarObjects ==
    {"ke_bar_outline", "ke_bar_fill", "pe_bar_outline", "pe_bar_fill",
     "total_energy_line", "ke_label", "pe_label", "total_label"}

\* oscillator_group = VGroup(wall, spring, mass, equilibrium_line, amplitude_markers)
oscillator_group == SystemObjects \cup {"amplitude_markers"}

\* a scene 1 that plays the creation before create_spring_mass_system is called
scene_1_oscillator_setup_PlayFirst ==
    << Segment(<< PlayScaled(300, 5, SystemObjects),
                  Make(SystemObjects),
                  Make({"amplitude_markers"}),
                  Play(100, {"amplitude_markers"}) >>, 400),
       Segment(<< Highlight, Post >>, 200),
       Segment(<< Post >>, 100) >>

scene_1_oscillator_setup ==
    << Segment(<< Make(SystemObjects),
                  PlayScaled(300, 5, SystemObjects),
                  Make({"amplitude_markers"}),
                  Play(100, {"amplitude_markers"}) >>, 400),
       Segment(<< Highlight, Post >>, 200),
       Segment(<< Post >>, 100) >>

scene_2_problem_parameters ==
    << Segment(<< GroupShift(200, 4, oscillator_group, 0 - 1500), Post >>, 300),
       Segment(<< Post, Wait(50), Post, Wait(50), Post >>, 250),
       Segment(<< Post, Post >>, 150) >>

scene_3_energy_principles ==
    << Segment(<< Post, Post >>, 150),
       Segment(<< Post >>, 100),
       Segment(<< Post, Wait(80), Post >>, 180),
       Segment(<< Post, Wait(80), Post >>, 180) >>

scene_4_energy_analysis ==
    << Segment(<< Make(EnergyBarObjects),
                  PlayScaled(200, 4, EnergyBarObjects),
                  Post >>, 250),
       Segment(<< Post, Post >>, 150),
       Segment(<< Post, Post >>, 150),
       Segment(<< Post, Post >>, 120) >>

scene_5_energy_conclusion ==
    << Segment(<< Post, Post >>, 150),
       Segment(<< Post, Post >>, 150) >>

\* construct(): the five scene methods in call order
construct ==
    << scene_1_oscillator_setup, scene_2_problem_parameters,
       scene_3_energy_principles, scene_4_energy_analysis,
       scene_5_energy_conclusion >>

NumScenes == Len(construct)

\* ------------------------------------------------------------------- state
VARIABLES
    scene,              \* 0 before construct, 1..5 the running scene method, 6 after construct returned
    seg,                \* the voiceover block of the scene (1..), 0 outside the scenes
    ip,                 \* 0 before the block is entered, k the k-th statement is next,
                        \* Len(acts)+1 the keep-alive lines, Len(acts)+2 the end of the block
    aft,                \* position inside add_flowing_text: "idle", "flowed", "appended"
    time,               \* self.renderer.time
    duration,           \* tracker.duration of the block being run
    text_content,       \* the argument of the running add_flowing_text call
    text_content_stack, \* self.text_content_stack
    mobjects,           \* the objects on the scene (self.mobjects)
    created,            \* the attributes create_* has set (self.wall, ...)
    placed,             \* x coordinate of the fixed parts of the diagram as displayed
    \* history of the run, read by the properties only
    posted,             \* number of completed add_flowing_text calls
    evicted,            \* ids of the evicted entries, in eviction order
    lenAtCall,          \* len(text_content_stack) when the running/last call began
    aftLog,             \* what the running/last add_flowing_text call did, in order
    segStart,           \* renderer.time when the block was entered
    actionSum,          \* run time of the statements of the block run so far (keep-alive excluded)
    keepAlive,          \* "pending", "ran" or "skipped" for the block being run
    bodyEnd,            \* renderer.time at the end of the block body
    opsDone,            \* statements of the block run so far (keep-alive lines included)
    started,            \* the blocks entered so far, in order
    finished,           \* the blocks left so far, with the number of statements each ran
    narrationTotal,     \* sum of tracker.duration over the blocks entered so far
    covered,            \* every block body ended so far had tracker.duration >= its action sum
    \* direct calls of single methods with arbitrary arguments (ApiSpec only)
    api,                \* the last such call: method, argument, state before it, outcome
    halted              \* an exception left the call uncaught

vars == << scene, seg, ip, aft, time, duration, text_content, text_content_stack,
           mobjects, created, placed, posted, evicted, lenAtCall, aftLog, segStart,
           actionSum, keepAlive, bodyEnd, opsDone, started, finished,
           narrationTotal, covered, api, halted >>

histVars == << posted, evicted, lenAtCall, aftLog, segStart, actionSum, keepAlive,
               bodyEnd, opsDone, started, finished, narrationTotal, covered >>

apiVars == << api, halted >>

Obj(name) == [k |-> name, n |-> 0]
Txt(id) == [k |-> "text", n |-> id]
NoText == [id |-> 0, x |-> 0, y |-> 0]
NoCall == [op |-> "none", kind |-> "none", arg |-> 0, raised |-> "none", out |-> 0,
           timeBefore |-> 0, stackBefore |-> << >>, calls |-> 0]

Running == scene \in 1..NumScenes
Completed == scene = NumScenes + 1
CurSegment == construct[scene][seg]
CurActs == CurSegment.acts
InBody == Running /\ ip \in 1..Len(CurActs)
CurAct == CurActs[ip]

NothingPlaced == [n \in {} |-> 0]

Init ==
    /\ scene = 0 /\ seg = 0 /\ ip = 0 /\ aft = "idle"
    /\ time = 0 /\ duration = 0
    /\ text_content = NoText
    /\ text_content_stack = << >>
    /\ mobjects = {} /\ created = {} /\ placed = NothingPlaced
    /\ posted = 0 /\ evicted = << >> /\ lenAtCall = 0 /\ aftLog = << >>
    /\ segStart = 0 /\ actionSum = 0 /\ keepAlive = "pending" /\ bodyEnd = 0
    /\ opsDone = 0 /\ started = << >> /\ finished = << >>
    /\ narrationTotal = 0 /\ covered = TRUE
    /\ api = NoCall /\ halted = FALSE

\* ------------------------------------------------------ pure computations
\* run_time of a self.play(...) / self.wait(...) statement of a block
RunTime(a, d) == IF a.num = 0 THEN a.rt ELSE Min(a.cap, (a.num * d) \div 10)

\* remaining_time = max(0, tracker.duration - sub)
RemainingTime(d, sub) == Max(0, d - sub)

\* a keep-alive guard that lets durations up to one second above the constant through
KeepAliveRunTime_LateGuard(d, sub) == IF d - sub > 100 THEN d - sub ELSE 0

\* a keep-alive tick run without the guard and without the max
KeepAliveRunTime_Unguarded(d, sub) == d - sub

\* "if remaining_time > 0: self.keep_animation_running(remaining_time)":
\* the run time of the keep-alive tick, 0 when the call is skipped
KeepAliveRunTime(d, sub) == IF RemainingTime(d, sub) > 0 THEN RemainingTime(d, sub) ELSE 0

\* a keep-alive that leaves the dummy dot on the scene
keep_animation_running_NoRemove(objs, d) == objs \cup {Obj("dummy")}

\* keep_animation_running(d): the dummy dot is played for d and removed again
keep_animation_running(objs, d) == (objs \cup {Obj("dummy")}) \ {Obj("dummy")}

\* a highlight that plays the colour change and never the change back
highlight_amplitude_concept_OnePlay == HIGHLIGHT_RUN_TIME

\* highlight_amplitude_concept(): two plays of 0.6 s
highlight_amplitude_concept == HIGHLIGHT_RUN_TIME + HIGHLIGHT_RUN_TIME

\* text_content.move_to(self.text_center_position)
MoveToCenter(id) == [id |-> id, x |-> text_center_x, y |-> text_center_y]

\* a flow that moves the most recent entry only
FlowShift_OnlyNewest(stack) ==
    [i \in 1..Len(stack) |->
        IF i = Len(stack)
        THEN [stack[i] EXCEPT !.x = @ + TEXT_FLOW_SHIFT_X, !.y = @ + TEXT_FLOW_SHIFT_Y]
        ELSE stack[i]]

\* existing_content.animate.shift(self.TEXT_FLOW_SHIFT) for every entry of the stack
FlowShift(stack) ==
    [i \in 1..Len(stack) |->
        [stack[i] EXCEPT !.x = @ + TEXT_FLOW_SHIFT_X, !.y = @ + TEXT_FLOW_SHIFT_Y]]

\* a flow play that is run for an empty stack too
FlowRunTime_Always(stack) == FLOW_RUN_TIME

\* run time of the flow play: it is played only when the stack is not empty
FlowRunTime(stack) == IF Len(stack) > 0 THEN FLOW_RUN_TIME ELSE 0

\* a stack check that is off by one
StackOverflow_OffByOne(stack) == Len(stack) > MAX_STACK + 1

\* "if len(self.text_content_stack) > 6"
StackOverflow(stack) == Len(stack) > MAX_STACK

\* pop() in place of pop(0): the newest entry is taken
NewestContent(stack) == stack[Len(stack)]
PopNewest(stack) == SubSeq(stack, 1, Len(stack) - 1)

\* oldest_content = self.text_content_stack.pop(0)
OldestContent(stack) == stack[1]
PopOldest(stack) == Tail(stack)

\* a cleanup that takes the entry after the oldest off the scene
RemoveFromScene_WrongEntry(objs, entry) == objs \ {Txt(entry.id + 1)}

\* a cleanup that forgets self.remove
RemoveFromScene_Forgotten(objs, entry) == objs

\* self.remove(oldest_content)
RemoveFromScene(objs, entry) == objs \ {Txt(entry.id)}

\* a construct that leaves out the scene method after the one that returned
NextScene_Skip(sc, sg) == IF sg < Len(construct[sc]) THEN sc ELSE sc + 2

\* a construct that returns after scene 4
NextScene_EarlyReturn(sc, sg) ==
    IF sg < Len(construct[sc]) THEN sc
    ELSE IF sc >= NumScenes - 1 THEN NumScenes + 1 ELSE sc + 1

\* the block that follows block sg of scene sc: the next "with" of the scene
\* method, else the first block of the next scene method called by construct
NextSeg(sc, sg) ==
    IF sg < Len(construct[sc]) THEN sg + 1
    ELSE IF sc < NumScenes THEN 1 ELSE 0

NextScene(sc, sg) == IF sg < Len(construct[sc]) THEN sc ELSE sc + 1

\* create_energy_bars: the attributes in the order they are assigned, and the
\* attributes the construction of each one reads (align_to, next_to)
create_energy_bars ==
    << "ke_bar_outline", "ke_bar_fill", "pe_bar_outline", "pe_bar_fill",
       "total_energy_line", "ke_label", "pe_label", "total_label" >>

Needs(name) ==
    IF name \in {"ke_bar_fill", "ke_label"} THEN {"ke_bar_outline"}
    ELSE IF name \in {"pe_bar_fill", "pe_label"} THEN {"pe_bar_outline"}
    ELSE IF name = "total_label" THEN {"total_energy_line"}
    ELSE {}

\* the fixed parts of the diagram that an attribute stands for
Parts(name) ==
    IF name = "amplitude_markers" THEN {"left_marker", "right_marker"}
    ELSE IF name \in {"wall", "equilibrium_line"} THEN {name}
    ELSE {}

\* where create_spring_mass_system and create_amplitude_markers put a part
CreatedAt(part) ==
    IF part = "wall" THEN wall_x
    ELSE IF part = "left_marker" THEN equilibrium_x - amplitude_visual
    ELSE IF part = "right_marker" THEN equilibrium_x + amplitude_visual
    ELSE equilibrium_x

\* the parts of the created attributes get their coordinates
Place(p, objs) ==
    [n \in DOMAIN p \cup UNION {Parts(o) : o \in objs} |->
        IF n \in DOMAIN p THEN p[n] ELSE CreatedAt(n)]

\* group.animate.shift(dx): the fixed parts of the group are moved by dx; the
\* always_redraw members (spring, mass) are drawn anew from their functions
ShiftPlaced(p, group, dx) ==
    [n \in DOMAIN p |->
        IF n \in UNION {Parts(o) : o \in group} THEN p[n] + dx ELSE p[n]]

\* ----------------------------------------------------------------- actions
\* a construct that shows a title text through the overlay stack before the
\* first scene method
Construct_WithTitle ==
    /\ scene = 0
    /\ scene' = 1 /\ seg' = 1 /\ ip' = 0
    /\ text_content_stack' = Append(text_content_stack, MoveToCenter(0))
    /\ UNCHANGED << aft, time, duration, text_content, mobjects, created,
                    histVars, apiVars, placed >>

\* construct() is called: set_speech_service, then scene_1_oscillator_setup()
Construct ==
    /\ scene = 0
    /\ scene' = 1 /\ seg' = 1 /\ ip' = 0
    /\ UNCHANGED << aft, time, duration, text_content, text_content_stack,
                    mobjects, created, placed, histVars >>
    /\ UNCHANGED << apiVars, placed >>

\* "with self.voiceover(text=...) as tracker": the narration of the block has
\* a duration known at entry
VoiceoverEnter ==
    /\ Running /\ ip = 0
    /\ \E d \in Durations : duration' = d /\ narrationTotal' = narrationTotal + d
    /\ ip' = 1
    /\ segStart' = time /\ actionSum' = 0 /\ keepAlive' = "pending" /\ opsDone' = 0
    /\ started' = Append(started, << scene, seg >>)
    /\ UNCHANGED << scene, seg, aft, time, text_content, text_content_stack,
                    mobjects, created, posted, evicted, lenAtCall, aftLog,
                    bodyEnd, finished >>
    /\ UNCHANGED << apiVars, placed >>
    /\ UNCHANGED covered

\* create_spring_mass_system(), create_amplitude_markers(), create_energy_bars()
CreateObjects ==
    /\ InBody /\ CurAct.op = "make"
    /\ created' = created \cup CurAct.objs
    /\ ip' = ip + 1 /\ opsDone' = opsDone + 1
    /\ UNCHANGED << scene, seg, aft, time, duration, text_content,
                    text_content_stack, mobjects, posted, evicted, lenAtCall,
                    aftLog, segStart, actionSum, keepAlive, bodyEnd, started,
                    finished >>
    /\ UNCHANGED apiVars
    /\ placed' = Place(placed, CurAct.objs)
    /\ UNCHANGED << narrationTotal, covered >>

\* a play whose group shift takes the overlay texts along
PlayAnimation_ShiftsOverlay ==
    /\ InBody /\ CurAct.op = "play"
    /\ time' = time + RunTime(CurAct, duration)
    /\ actionSum' = actionSum + RunTime(CurAct, duration)
    /\ mobjects' = mobjects \cup {Obj(o) : o \in CurAct.objs}
    /\ placed' = ShiftPlaced(placed, CurAct.refs, CurAct.dx)
    /\ text_content_stack' =
           [i \in 1..Len(text_content_stack) |->
               [text_content_stack[i] EXCEPT !.x = @ + (CurAct.dx \div 100)]]
    /\ ip' = ip + 1 /\ opsDone' = opsDone + 1
    /\ UNCHANGED << scene, seg, aft, duration, text_content, created, posted,
                    evicted, lenAtCall, aftLog, segStart, keepAlive, bodyEnd,
                    started, finished, narrationTotal, covered, apiVars >>

\* self.play(..., run_time=...) of a block: Create, the group shift, FadeIn of the bars
PlayAnimation ==
    /\ InBody /\ CurAct.op = "play"
    /\ time' = time + RunTime(CurAct, duration)
    /\ actionSum' = actionSum + RunTime(CurAct, duration)
    /\ mobjects' = mobjects \cup {Obj(o) : o \in CurAct.objs}
    /\ ip' = ip + 1 /\ opsDone' = opsDone + 1
    /\ UNCHANGED << scene, seg, aft, duration, text_content, text_content_stack,
                    created, posted, evicted, lenAtCall, aftLog, segStart,
                    keepAlive, bodyEnd, started, finished >>
    /\ UNCHANGED apiVars
    /\ placed' = ShiftPlaced(placed, CurAct.refs, CurAct.dx)
    /\ UNCHANGED << narrationTotal, covered >>

\* self.wait(0.5), self.wait(0.8)
WaitStep ==
    /\ InBody /\ CurAct.op = "wait"
    /\ time' = time + RunTime(CurAct, duration)
    /\ actionSum' = actionSum + RunTime(CurAct, duration)
    /\ ip' = ip + 1 /\ opsDone' = opsDone + 1
    /\ UNCHANGED << scene, seg, aft, duration, text_content, text_content_stack,
                    mobjects, created, posted, evicted, lenAtCall, aftLog,
                    segStart, keepAlive, bodyEnd, started, finished >>
    /\ UNCHANGED << apiVars, placed >>
    /\ UNCHANGED << narrationTotal, covered >>

\* self.highlight_amplitude_concept()
HighlightAmplitudeConcept ==
    /\ InBody /\ CurAct.op = "highlight"
    /\ time' = time + highlight_amplitude_concept
    /\ actionSum' = actionSum + highlight_amplitude_concept
    /\ ip' = ip + 1 /\ opsDone' = opsDone + 1
    /\ UNCHANGED << scene, seg, aft, duration, text_content, text_content_stack,
                    mobjects, created, posted, evicted, lenAtCall, aftLog,
                    segStart, keepAlive, bodyEnd, started, finished >>
    /\ UNCHANGED << apiVars, placed >>
    /\ UNCHANGED << narrationTotal, covered >>

\* add_flowing_text, first part: the new text is moved to the anchor and the
\* existing entries are played upwards (frames are rendered during the play)
AddFlowingTextFlow ==
    /\ InBody /\ CurAct.op = "post" /\ aft = "idle"
    /\ text_content' = MoveToCenter(posted + 1)
    /\ text_content_stack' = FlowShift(text_content_stack)
    /\ time' = time + FlowRunTime(text_content_stack)
    /\ actionSum' = actionSum + FlowRunTime(text_content_stack)
    /\ lenAtCall' = Len(text_content_stack)
    /\ aftLog' = IF Len(text_content_stack) > 0 THEN << "shift" >> ELSE << >>
    /\ aft' = "flowed"
    /\ UNCHANGED << scene, seg, ip, duration, mobjects, created, posted, evicted,
                    segStart, keepAlive, bodyEnd, opsDone, started, finished >>
    /\ UNCHANGED << apiVars, placed >>
    /\ UNCHANGED << narrationTotal, covered >>

\* add_flowing_text, second part: append to the stack, then play the fade-in,
\* which puts the new text on the scene
AddFlowingTextFadeIn ==
    /\ InBody /\ CurAct.op = "post" /\ aft = "flowed"
    /\ text_content_stack' = Append(text_content_stack, text_content)
    /\ mobjects' = mobjects \cup {Txt(text_content.id)}
    /\ time' = time + FADE_IN_RUN_TIME
    /\ actionSum' = actionSum + FADE_IN_RUN_TIME
    /\ aftLog' = aftLog \o << "append", "fadein" >>
    /\ aft' = "appended"
    /\ UNCHANGED << scene, seg, ip, duration, text_content, created, posted,
                    evicted, lenAtCall, segStart, keepAlive, bodyEnd, opsDone,
                    started, finished >>
    /\ UNCHANGED << apiVars, placed >>
    /\ UNCHANGED << narrationTotal, covered >>

\* add_flowing_text, last part: the stack management, then the call returns
AddFlowingTextCleanup ==
    /\ InBody /\ CurAct.op = "post" /\ aft = "appended"
    /\ IF StackOverflow(text_content_stack)
       THEN /\ text_content_stack' = PopOldest(text_content_stack)
            /\ mobjects' = RemoveFromScene(mobjects, OldestContent(text_content_stack))
            /\ evicted' = Append(evicted, OldestContent(text_content_stack).id)
            /\ aftLog' = Append(aftLog, "evict")
       ELSE UNCHANGED << text_content_stack, mobjects, evicted, aftLog >>
    /\ text_content' = NoText
    /\ posted' = posted + 1
    /\ aft' = "idle"
    /\ ip' = ip + 1 /\ opsDone' = opsDone + 1
    /\ UNCHANGED << scene, seg, time, duration, created, lenAtCall, segStart,
                    actionSum, keepAlive, bodyEnd, started, finished >>
    /\ UNCHANGED << apiVars, placed >>
    /\ UNCHANGED << narrationTotal, covered >>

\* the last lines of a block: remaining_time and the guarded keep-alive tick
KeepAlive ==
    /\ Running /\ ip = Len(CurActs) + 1
    /\ time' = time + KeepAliveRunTime(duration, CurSegment.sub)
    /\ mobjects' = IF KeepAliveRunTime(duration, CurSegment.sub) > 0
                   THEN keep_animation_running(mobjects, KeepAliveRunTime(duration, CurSegment.sub))
                   ELSE mobjects
    /\ keepAlive' = IF KeepAliveRunTime(duration, CurSegment.sub) > 0 THEN "ran" ELSE "skipped"
    /\ bodyEnd' = time'
    /\ ip' = ip + 1 /\ opsDone' = opsDone + 1
    /\ UNCHANGED << scene, seg, aft, duration, text_content, text_content_stack,
                    created, posted, evicted, lenAtCall, aftLog, segStart,
                    actionSum, started, finished >>
    /\ UNCHANGED << apiVars, placed >>
    /\ covered' = (covered /\ duration >= actionSum)
    /\ UNCHANGED narrationTotal

\* the block is left: the voiceover context manager of manim_voiceover waits
\* for what is left of the narration, then the next block (or the next scene
\* method, or the return of construct) follows
VoiceoverExit ==
    /\ Running /\ ip = Len(CurActs) + 2
    /\ time' = time + Max(0, segStart + duration - time)
    /\ finished' = Append(finished, [pos |-> << scene, seg >>, ops |-> opsDone])
    /\ scene' = NextScene(scene, seg)
    /\ seg' = NextSeg(scene, seg)
    /\ ip' = 0
    /\ UNCHANGED << aft, duration, text_content, text_content_stack, mobjects,
                    created, posted, evicted, lenAtCall, aftLog, segStart,
                    actionSum, keepAlive, bodyEnd, opsDone, started >>
    /\ UNCHANGED << apiVars, placed >>
    /\ UNCHANGED << narrationTotal, covered >>

Next ==
    \/ Construct
    \/ VoiceoverEnter
    \/ CreateObjects
    \/ PlayAnimation
    \/ WaitStep
    \/ HighlightAmplitudeConcept
    \/ AddFlowingTextFlow
    \/ AddFlowingTextFadeIn
    \/ AddFlowingTextCleanup
    \/ KeepAlive
    \/ VoiceoverExit

Spec == Init /\ [][Next]_vars

\* the single-threaded timeline always runs its next statement
FairSpec == Spec /\ WF_vars(Next)

\* ================================================================ properties
ShownTexts == {m \in mobjects : m.k = "text"}
StackIds == {text_content_stack[i].id : i \in 1..Len(text_content_stack)}
AtBodyEnd == Running /\ ip = Len(CurActs) + 2
BodyAdvance == time - segStart

\* C1: after every completed add_flowing_text call the overlay stack holds at
\* most 6 entries, however many posts were made.
C1_StackBoundAfterPost == (aft = "idle") => Len(text_content_stack) <= 6

C1_Witness == aft = "idle" /\ posted >= 7 /\ Len(text_content_stack) = 6

\* C2: eviction is FIFO: after n completed posts the stack holds exactly the
\* last min(n, 6) posted entries in insertion order, and the k-th eviction
\* removed the k-th posted entry.
C2_FifoEviction ==
    (aft = "idle") =>
        /\ Len(text_content_stack) = Min(posted, 6)
        /\ \A i \in 1..Len(text_content_stack) :
              text_content_stack[i].id = posted - Len(text_content_stack) + i
        /\ Len(evicted) = posted - Len(text_content_stack)
        /\ \A k \in 1..Len(evicted) : evicted[k] = k

C2_Witness == aft = "idle" /\ posted >= 9 /\ Len(evicted) >= 3

C5_AnchorAndOffsets ==
    (aft = "idle") =>
        \A i \in 1..Len(text_content_stack) :
            /\ text_content_stack[i].x = 30
            /\ text_content_stack[i].y = 5 + 30 * (Len(text_content_stack) - i)
            /\ text_content_stack[i].y = 5 + 30 * (posted - text_content_stack[i].id)

C5_Witness ==
    /\ aft = "idle" /\ posted >= 7 /\ Len(text_content_stack) = 6
    /\ text_content_stack[6].y = 5 /\ text_content_stack[1].y = 155

\* C6: in every block, whenever tracker.duration is at least the sum of the
\* run times of the statements the block executes, the clock advance over the
\* block body equals tracker.duration exactly.
C6_BodyMatchesNarration ==
    (AtBodyEnd /\ duration >= actionSum) => BodyAdvance = duration

\* C7: in every block, whenever tracker.duration is smaller than the sum of
\* the run times of the statements the block executes, no keep-alive tick is
\* run and the clock advance over the block body equals that sum.
C7_ActionsDominate ==
    (AtBodyEnd /\ duration < actionSum) =>
        /\ keepAlive = "skipped"
        /\ BodyAdvance = actionSum

\* the sixteen voiceover blocks of the five scene methods, in source order
ProgramOrder ==
    << << 1, 1 >>, << 1, 2 >>, << 1, 3 >>,
       << 2, 1 >>, << 2, 2 >>, << 2, 3 >>,
       << 3, 1 >>, << 3, 2 >>, << 3, 3 >>, << 3, 4 >>,
       << 4, 1 >>, << 4, 2 >>, << 4, 3 >>, << 4, 4 >>,
       << 5, 1 >>, << 5, 2 >> >>

\* statements of a block, the keep-alive lines counted as one
StatementsOf(pos) == Len(construct[pos[1]][pos[2]].acts) + 1

\* C8: the 16 blocks run in the one fixed program order: a block is entered
\* only after every statement and the keep-alive lines of the preceding block
\* have run, and no block is skipped, repeated or reordered.
C8_FixedProgramOrder ==
    /\ Len(started) <= Len(ProgramOrder)
    /\ started = SubSeq(ProgramOrder, 1, Len(started))
    /\ Len(finished) = IF Running /\ ip > 0 THEN Len(started) - 1 ELSE Len(started)
    /\ \A i \in 1..Len(finished) :
          /\ finished[i].pos = started[i]
          /\ finished[i].ops = StatementsOf(started[i])
    /\ Completed => started = ProgramOrder

C8_Witness == Completed /\ Len(started) = 16 /\ Len(finished) = 16

C10_ClockMonotonic == [][time' >= time]_vars

C10_Witness == keepAlive = "ran" /\ time > segStart /\ Len(started) >= 2

\* C11: when every block's tracker.duration is at least the sum of the run
\* times of its statements, the clock at the return of construct equals the
\* sum of all tracker.duration values.
C11_FinalClockIsNarrationSum == (Completed /\ covered) => time = narrationTotal

\* C12: a keep_animation_running(d) call with d > 0 advances the clock by
\* exactly d and leaves the overlay stack (contents, order, positions) and the
\* set of objects on the scene as they were: the dummy dot is gone again.
C12_KeepAliveOnlyAdvancesClock ==
    [][(Running /\ ip = Len(CurActs) + 1 /\ keepAlive' = "ran") =>
          /\ duration - CurSegment.sub > 0
          /\ time' = time + (duration - CurSegment.sub)
          /\ text_content_stack' = text_content_stack
          /\ mobjects' = mobjects
          /\ Obj("dummy") \notin mobjects']_vars

C12_Witness ==
    /\ AtBodyEnd /\ keepAlive = "ran" /\ time = bodyEnd
    /\ Len(text_content_stack) >= 2 /\ Obj("dummy") \notin mobjects

\* the blocks entered and not yet left
ActiveBlocks == {started[i] : i \in (Len(finished) + 1)..Len(started)}

\* C13: every mutation of the overlay stack (shift, append, eviction) happens
\* inside a voiceover block, while exactly one block is active.
C13_StackMutatedInsideOneBlock ==
    [][(text_content_stack' # text_content_stack) =>
          /\ InBody /\ CurAct.op = "post"
          /\ ActiveBlocks = {<< scene, seg >>}]_vars

C13_Witness ==
    /\ aft = "appended" /\ Len(text_content_stack) = 7
    /\ ActiveBlocks = {<< scene, seg >>}

\* C20: no block body ends earlier than its narration: the clock advance over
\* the body (statements plus keep-alive) is at least tracker.duration.
C20_BodyNotShorterThanNarration == AtBodyEnd => BodyAdvance >= duration

\* C15: at every clock time of the show with the mass on the scene, the
\* displacement A * cos(2 pi t / period) is within the amplitude and the clamp
\* branch of draw_constrained_mass is not taken.
C15_DisplacementWithinAmplitude ==
    (Obj("mass") \in mobjects) =>
        /\ Abs(position_offset(time)) <= amplitude_visual
        /\ ~draw_constrained_mass(time).clamped
        /\ draw_constrained_mass(time).x = equilibrium_x + position_offset(time)

C15_Witness ==
    /\ Obj("mass") \in mobjects
    /\ position_offset(time) = 0 - amplitude_visual
    /\ draw_constrained_mass(time).x = equilibrium_x - amplitude_visual

\* the resolution of the fixed-point arithmetic, in 1/Scale
Tolerance == 5

\* C19: at every clock time the kinetic and the potential energy fraction add
\* up to 1 within tolerance.
C19_EnergyFractionsSumToOne ==
    Abs(get_kinetic_energy_fraction(time) + get_potential_energy_fraction(time)
        - Scale) <= Tolerance

C19_Witness ==
    /\ Obj("ke_bar_fill") \in mobjects /\ Obj("pe_bar_fill") \in mobjects
    /\ get_kinetic_energy_fraction(time) > 0
    /\ get_potential_energy_fraction(time) > get_kinetic_energy_fraction(time)

\* ------------------------------------------- the methods called on their own
\* The methods of the scene are called one at a time on a freshly constructed
\* scene, with arguments the show itself never passes.
MaxApiCalls == 4

\* displacements handed to the clamp of draw_constrained_mass
RawOffsets == {0 - 1500, 0 - 1000, 0 - 400, 0, 1000, 1200}

\* what add_flowing_text can be handed: a Text, a Mobject with nothing in it,
\* and an object that is no Mobject (None, a str)
ContentKinds == {"text", "empty_mobject", "not_mobject"}
Malformed == {"empty_mobject", "not_mobject"}

\* text_content.move_to exists for every Mobject
HasMoveTo(c) == c # "not_mobject"

\* durations handed to keep_animation_running
ApiDurations == {0 - 100, 0 - 50, 50, 100}

\* self.play(..., run_time=rt): with rt > 0 the animation is played for rt; for
\* rt <= 0 the outcome is the rendering library's: no frame is played, or the
\* library raises ValueError
PlayOutcomes(rt) == IF rt > 0 THEN {"played"} ELSE {"played_no_frame", "ValueError"}

ApiCanCall == scene = 0 /\ ~halted /\ api.calls < MaxApiCalls

Called(op, kind, arg, raised, out) ==
    [op |-> op, kind |-> kind, arg |-> arg, raised |-> raised, out |-> out,
     timeBefore |-> time, stackBefore |-> text_content_stack,
     calls |-> api.calls + 1]

\* the body of draw_constrained_mass from the clamp on, for a displacement
ApiDrawMass ==
    /\ ApiCanCall
    /\ \E off \in RawOffsets :
          /\ api' = Called("draw_constrained_mass", "none", off,
                           ConstrainMass(off).raised, ConstrainMass(off).x)
          /\ halted' = (ConstrainMass(off).raised # "none")
    /\ UNCHANGED << scene, seg, ip, aft, time, duration, text_content,
                    text_content_stack, mobjects, created, placed, histVars >>

\* add_flowing_text(text_content), the whole call
ApiAddFlowingText ==
    /\ ApiCanCall
    /\ \E c \in ContentKinds :
          IF ~HasMoveTo(c)
          THEN /\ api' = Called("add_flowing_text", c, 0, "AttributeError", 0)
               /\ halted' = TRUE
               /\ UNCHANGED << time, text_content_stack, mobjects >>
          ELSE LET id == 100 + api.calls + 1
                   appended == Append(FlowShift(text_content_stack), MoveToCenter(id))
                   shown == mobjects \cup {Txt(id)}
               IN  /\ time' = time + FlowRunTime(text_content_stack) + FADE_IN_RUN_TIME
                   /\ text_content_stack' =
                          IF StackOverflow(appended) THEN PopOldest(appended) ELSE appended
                   /\ mobjects' =
                          IF StackOverflow(appended)
                          THEN RemoveFromScene(shown, OldestContent(appended))
                          ELSE shown
                   /\ api' = Called("add_flowing_text", c, 0, "none", 0)
                   /\ halted' = FALSE
    /\ UNCHANGED << scene, seg, ip, aft, duration, text_content, created, placed, histVars >>

\* keep_animation_running(duration), the whole call
ApiKeepAlive ==
    /\ ApiCanCall
    /\ \E d \in ApiDurations : \E o \in PlayOutcomes(d) :
          /\ time' = IF o = "played" THEN time + d ELSE time
          /\ mobjects' = IF o = "ValueError" THEN mobjects
                         ELSE keep_animation_running(mobjects, d)
          /\ api' = Called("keep_animation_running", "none", d,
                           IF o = "ValueError" THEN o ELSE "none", 0)
          /\ halted' = (o = "ValueError")
    /\ UNCHANGED << scene, seg, ip, aft, duration, text_content,
                    text_content_stack, created, placed, histVars >>

ApiNext == ApiDrawMass \/ ApiAddFlowingText \/ ApiKeepAlive
ApiSpec == Init /\ [][ApiNext]_vars

C17_MalformedContentRejected ==
    (api.op = "add_flowing_text" /\ api.kind \in Malformed) =>
        /\ api.raised = "InvalidContent" /\ ~halted
        /\ time = api.timeBefore /\ text_content_stack = api.stackBefore

\* C18: keep_animation_running with a negative duration is rejected with
\* InvalidInterval and the clock is as before the call.
C18_NegativeDurationRejected ==
    (api.op = "keep_animation_running" /\ api.arg < 0) =>
        api.raised = "InvalidInterval" /\ time = api.timeBefore

\* C21: in the first block of scene 1 the clock advance of the body (creation
\* play, marker play, keep-alive) equals tracker.duration, whatever it is.
C21_FirstBlockMatchesNarration ==
    (AtBodyEnd /\ scene = 1 /\ seg = 1) => BodyAdvance = duration

\* C25: after every completed post the overlay texts on the scene are exactly
\* the entries of the stack, no entry is there twice, and every evicted entry
\* is off the stack and off the scene.
C25_SceneShowsExactlyTheStack ==
    (aft = "idle") =>
        /\ ShownTexts = {Txt(id) : id \in StackIds}
        /\ Cardinality(StackIds) = Len(text_content_stack)
        /\ \A k \in 1..Len(evicted) :
              evicted[k] \notin StackIds /\ Txt(evicted[k]) \notin mobjects

C25_Witness ==
    /\ aft = "idle" /\ Len(evicted) >= 20
    /\ Cardinality(ShownTexts) = 6 /\ Txt(20) \notin mobjects

\* C27: add_flowing_text advances the clock by 0.8 s when the stack is empty
\* at the call and by 0.5 + 0.8 = 1.3 s otherwise; the eviction takes no time.
C27_PostTakesFixedTime ==
    [][/\ (aft = "idle" /\ aft' = "flowed") =>
              time' = time + (IF Len(text_content_stack) = 0 THEN 0 ELSE 50)
       /\ (aft = "flowed" /\ aft' = "appended") => time' = time + 80
       /\ (aft = "appended" /\ aft' = "idle") => time' = time
       /\ (aft = "idle" /\ aft' = "idle") =>
              Len(text_content_stack') = Len(text_content_stack)]_vars

C27_Witness ==
    /\ aft = "idle" /\ posted >= 8
    /\ aftLog = << "shift", "append", "fadein", "evict" >>

\* C28: in the second block of scene 1 the statements before the keep-alive
\* (two highlight plays of 0.6 s, the first post into the empty stack, 0.8 s)
\* take exactly the 2.0 s that the block subtracts, so the body advance equals
\* tracker.duration for every tracker.duration >= 2.0 s.
C28_SecondBlockExact ==
    (AtBodyEnd /\ scene = 1 /\ seg = 2) =>
        /\ actionSum = 200 /\ CurSegment.sub = 200 /\ lenAtCall = 0
        /\ BodyAdvance = duration
        /\ \A d \in 200..(250 * MaxNarration) :
              actionSum + KeepAliveRunTime(d, CurSegment.sub) = d

C28_Witness ==
    /\ AtBodyEnd /\ scene = 1 /\ seg = 2 /\ posted = 1
    /\ keepAlive = "ran" /\ BodyAdvance = 500

\* C29: the keep-alive tick is run only with a strictly positive duration,
\* tracker.duration minus the block's constant; when tracker.duration is at
\* most the constant it is skipped: no clock advance, no dummy on the scene.
C29_KeepAliveOnlyPositive ==
    [][(Running /\ ip = Len(CurActs) + 1 /\ ip' = ip + 1) =>
          IF duration <= CurSegment.sub
          THEN keepAlive' = "skipped" /\ time' = time /\ mobjects' = mobjects
          ELSE keepAlive' = "ran" /\ time' - time = duration - CurSegment.sub
                                  /\ time' - time > 0]_vars

C29_Witness ==
    /\ AtBodyEnd /\ keepAlive = "skipped" /\ duration = CurSegment.sub
    /\ time = bodyEnd

\* C22: the overlay stack and the positions of its entries change only inside
\* add_flowing_text: no other statement that advances the clock touches them,
\* and inside the call only the shift moves entries that stay.
C22_StackOnlyMovedByPosts ==
    [][/\ ~(InBody /\ CurAct.op = "post") =>
              text_content_stack' = text_content_stack
       /\ (InBody /\ CurAct.op = "post" /\ aft = "flowed") =>
              SubSeq(text_content_stack', 1, Len(text_content_stack))
                  = text_content_stack
       /\ (InBody /\ CurAct.op = "post" /\ aft = "appended") =>
              text_content_stack' \in {text_content_stack, Tail(text_content_stack)}]_vars

C22_Witness ==
    /\ scene = 4 /\ seg = 1 /\ ip = 3 /\ time > segStart
    /\ Obj("ke_bar_fill") \in mobjects
    /\ Len(text_content_stack) = 6 /\ text_content_stack[6].y = 5

\* C23: whenever wall and spring are on the scene, the wall-side endpoint of
\* the spring is at the right edge of the wall as displayed (the wall is 0.3
\* wide), also after the group shift of scene 2.
C23_SpringStartsAtWall ==
    (Obj("wall") \in mobjects /\ Obj("spring") \in mobjects) =>
        draw_constrained_spring(time).from = placed["wall"] + 150

\* C24: whenever the amplitude markers and the mass are on the scene, the
\* centre of the mass is between the displayed -A and +A markers, also after
\* the group shift of scene 2.
C24_MassBetweenMarkers ==
    (Obj("amplitude_markers") \in mobjects /\ Obj("mass") \in mobjects) =>
        /\ placed["left_marker"] <= draw_constrained_mass(time).x
        /\ draw_constrained_mass(time).x <= placed["right_marker"]

\* C26: at every clock time the mass-side endpoint of the spring is at the
\* left edge (centre minus the radius 0.2) of the mass drawn for that time.
C26_SpringEndsAtMass ==
    (Obj("spring") \in mobjects /\ Obj("mass") \in mobjects) =>
        draw_constrained_spring(time).to = draw_constrained_mass(time).x - 200

C26_Witness ==
    /\ Obj("spring") \in mobjects /\ Obj("mass") \in mobjects /\ scene >= 3
    /\ position_offset(time) < 0 /\ position_offset(time) > 0 - amplitude_visual
    /\ draw_constrained_spring(time).to < equilibrium_x - 200

\* the attributes create_energy_bars has assigned before its i-th assignment
AssignedBefore(i) == {create_energy_bars[j] : j \in 1..(i - 1)}

\* C30: no statement reads an attribute before the create_* call that sets
\* it has run, and inside create_energy_bars every attribute is assigned
\* after the ones its construction reads (outline before fill).
C30_CreatedBeforeUse ==
    [][(InBody /\ ip' = ip + 1) =>
          /\ CurAct.refs \subseteq created
          /\ (CurAct.op = "make" /\ CurAct.objs = EnergyBarObjects) =>
                /\ {create_energy_bars[i] : i \in 1..Len(create_energy_bars)}
                       = EnergyBarObjects
                /\ \A i \in 1..Len(create_energy_bars) :
                      Needs(create_energy_bars[i]) \subseteq created \cup AssignedBefore(i)]_vars

C30_Witness ==
    /\ scene = 4 /\ EnergyBarObjects \subseteq created
    /\ oscillator_group \subseteq created
    /\ Obj("pe_bar_fill") \in mobjects /\ placed["wall"] = wall_x - 1500

====
